---- MODULE Spec2Model ----
(***************************************************************************)
(* Model of the publication-list converter (database_maker.py) and of the  *)
(* snapshot viewer (database_viewer.py).                                   *)
(*                                                                         *)
(* A DataFrame is a record [columns, rows]: columns is the sequence of     *)
(* column labels (labels may repeat, as in pandas), rows is a sequence of  *)
(* records [idx, cells] where idx is the pandas index label of the row     *)
(* (its position in the loaded file) and cells is aligned with columns.    *)
(* Text is modelled by TLA+ strings, read character by character with      *)
(* SubSeq, so that strip(), lower(), split(), int() and slicing do what    *)
(* the Python calls do.                                                    *)
(***************************************************************************)
EXTENDS Integers, Sequences, FiniteSets, TLC

(***************************************************************************)
(* Bounds of the model.                                                    *)
(***************************************************************************)
MaxRows == 2
MaxTokens == 4
MaxViewRows == 1

(***************************************************************************)
(* Program constants.                                                      *)
(***************************************************************************)
\* (the letter l stands for the l with stroke of "Tytul")
METADATA_COLUMNS ==
    << "Lp.", "Unikatowy Identyfikator Czasopisma", "Tytul 1", "issn",
       "e-issn", "Tytul 2", "issn 2", "e-issn 2", "Punkty" >>

SheetNameLimit == 31

(***************************************************************************)
(* Generic sequence helpers.                                               *)
(***************************************************************************)
Range(s) == { s[i] : i \in 1..Len(s) }

InSeq(x, s) == \E i \in 1..Len(s) : s[i] = x

RECURSIVE Concat(_)
Concat(ss) == IF ss = << >> THEN << >> ELSE Head(ss) \o Concat(Tail(ss))

RECURSIVE SeqsUpTo(_, _)
SeqsUpTo(S, n) ==
    IF n = 0 THEN { << >> }
    ELSE LET prev == SeqsUpTo(S, n - 1)
         IN  prev \cup { Append(p, x) : p \in { q \in prev : Len(q) = n - 1 }, x \in S }

(***************************************************************************)
(* Python text operations.                                                 *)
(***************************************************************************)
Char(s, i) == SubSeq(s, i, i)

IsSpace(c) == c \in { " ", "\t" }

RECURSIVE LStrip(_)
LStrip(s) ==
    IF Len(s) = 0 THEN s
    ELSE IF IsSpace(Char(s, 1)) THEN LStrip(SubSeq(s, 2, Len(s))) ELSE s

RECURSIVE RStrip(_)
RStrip(s) ==
    IF Len(s) = 0 THEN s
    ELSE IF IsSpace(Char(s, Len(s))) THEN RStrip(SubSeq(s, 1, Len(s) - 1)) ELSE s

\* str.strip()
Strip(s) == RStrip(LStrip(s))

UpperLetters == "ABCDEFGHIJKLMNOPQRSTUVWXYZ"
LowerLetters == "abcdefghijklmnopqrstuvwxyz"

LowerChar(c) ==
    IF \E i \in 1..26 : Char(UpperLetters, i) = c
    THEN LET i == CHOOSE j \in 1..26 : Char(UpperLetters, j) = c
         IN  Char(LowerLetters, i)
    ELSE c

\* str.lower()
RECURSIVE Lower(_)
Lower(s) ==
    IF Len(s) = 0 THEN s
    ELSE LowerChar(Char(s, 1)) \o Lower(SubSeq(s, 2, Len(s)))

\* s[:n]
Prefix(s, n) == IF Len(s) <= n THEN s ELSE SubSeq(s, 1, n)

\* str.split(','): the pieces between commas; always at least one piece
RECURSIVE SplitFrom(_, _, _)
SplitFrom(s, i, cur) ==
    IF i > Len(s) THEN << cur >>
    ELSE IF Char(s, i) = "," THEN << cur >> \o SplitFrom(s, i + 1, "")
    ELSE SplitFrom(s, i + 1, cur \o Char(s, i))

Split(s) == SplitFrom(s, 1, "")

Digits == "0123456789"

IsDigit(c) == \E i \in 1..10 : Char(Digits, i) = c

DigitVal(c) == (CHOOSE i \in 1..10 : Char(Digits, i) = c) - 1

AllDigits(s) == Len(s) > 0 /\ \A i \in 1..Len(s) : IsDigit(Char(s, i))

RECURSIVE DigitsVal(_)
DigitsVal(s) ==
    IF Len(s) = 0 THEN 0
    ELSE 10 * DigitsVal(SubSeq(s, 1, Len(s) - 1)) + DigitVal(Char(s, Len(s)))

\* int(text): surrounding whitespace, an optional sign, decimal digits.
\* ok = FALSE stands for ValueError.
ParseInt(text) ==
    LET t == Strip(text)
        signed == Len(t) > 0 /\ Char(t, 1) \in { "-", "+" }
        body == IF signed THEN SubSeq(t, 2, Len(t)) ELSE t
    IN  IF AllDigits(body)
        THEN [ ok |-> TRUE,
               v |-> IF signed /\ Char(t, 1) = "-" THEN 0 - DigitsVal(body)
                     ELSE DigitsVal(body) ]
        ELSE [ ok |-> FALSE, v |-> 0 ]

(***************************************************************************)
(* DataFrame operations (pandas), on [columns, rows].                      *)
(***************************************************************************)
EmptyDF == [ columns |-> << >>, rows |-> << >> ]

\* the positions of label name among the column labels cols, left to right
Positions(cols, name) ==
    LET Hit(i) == cols[i] = name
    IN  SelectSeq([ i \in 1..Len(cols) |-> i ], Hit)

\* df[[n1, n2, ...]] is defined (no KeyError) iff every label is a column
HasColumns(frame, names) ==
    \A i \in 1..Len(names) : InSeq(names[i], frame.columns)

\* df[[n1, n2, ...]]: for each label in turn, every column carrying it
SelectColumns(frame, names) ==
    LET pos == Concat([ i \in 1..Len(names) |-> Positions(frame.columns, names[i]) ])
    IN  [ columns |-> [ k \in 1..Len(pos) |-> frame.columns[pos[k]] ],
          rows |-> [ r \in 1..Len(frame.rows) |->
                       [ idx |-> frame.rows[r].idx,
                         cells |-> [ k \in 1..Len(pos) |-> frame.rows[r].cells[pos[k]] ] ] ] ]

\* df[boolean Series]: the rows whose index label is in keep, order kept
SelectRows(frame, keep) ==
    LET Kept(row) == row.idx \in keep
    IN  [ columns |-> frame.columns, rows |-> SelectSeq(frame.rows, Kept) ]

RowIds(frame) == [ r \in 1..Len(frame.rows) |-> frame.rows[r].idx ]

\* Marked without the strip(): " x " is not a mark
Marked_unstripped(value) == Lower(value) = "x"

\* col.str.strip().str.lower() == 'x' on one cell (database_maker.py)
Marked(value) == Lower(Strip(value)) = "x"

\* mask.any(axis=1): index labels of the rows with a marked cell in some column
AnyMarked(frame) ==
    { frame.rows[r].idx : r \in { q \in 1..Len(frame.rows) :
          \E k \in 1..Len(frame.columns) : Marked(frame.rows[q].cells[k]) } }

(***************************************************************************)
(* run_conversion, stage by stage.                                         *)
(***************************************************************************)
\* cat_columns = [col for col in df.columns if col not in METADATA_COLUMNS]
CatColumns(cols) ==
    LET NotMeta(c) == ~InSeq(c, METADATA_COLUMNS)
    IN  SelectSeq(cols, NotMeta)

\* the tokens kept by "for x in cols_input.split(',') if x.strip()"
InputTokens(text) ==
    LET NonBlank(x) == Strip(x) # ""
    IN  SelectSeq(Split(Strip(text)), NonBlank)

\* chosen_indexes = [int(x.strip()) ...]; ok = FALSE stands for ValueError
ParseIndexes(text) ==
    LET toks == InputTokens(text)
    IN  [ ok |-> \A i \in 1..Len(toks) : ParseInt(Strip(toks[i])).ok,
          v |-> [ i \in 1..Len(toks) |-> ParseInt(Strip(toks[i])).v ] ]

\* Invalid stopping at the first index out of range
Invalid_first(indexes, max_index) ==
    LET Bad(idx) == idx < 1 \/ idx > max_index
        bad == SelectSeq(indexes, Bad)
    IN  IF bad = << >> THEN << >> ELSE << Head(bad) >>

\* invalid = [idx for idx in chosen_indexes if idx < 1 or idx > max_index]
Invalid(indexes, max_index) ==
    LET Bad(idx) == idx < 1 \/ idx > max_index
    IN  SelectSeq(indexes, Bad)

\* chosen_cat_columns = [cat_columns[idx - 1] for idx in chosen_indexes]
ChosenCatColumns(cats, indexes) ==
    [ i \in 1..Len(indexes) |-> cats[indexes[i]] ]

\* mask = df[chosen].apply(...); df_filtered = df[mask.any(axis=1)]
FilterMarked(frame, chosen) ==
    SelectRows(frame, AnyMarked(SelectColumns(frame, chosen)))

\* ColumnsToKeep with the two lists swapped
ColumnsToKeep_swapped(chosen) == chosen \o METADATA_COLUMNS

\* columns_to_keep = METADATA_COLUMNS + chosen_cat_columns
ColumnsToKeep(chosen) == METADATA_COLUMNS \o chosen

\* file_path.lower().endswith(suffix)
EndsWith(path, suffix) ==
    Len(path) >= Len(suffix)
    /\ SubSeq(Lower(path), Len(path) - Len(suffix) + 1, Len(path)) = suffix

IsCsv(path) == EndsWith(path, ".csv")

IsExcel(path) == EndsWith(path, ".xlsx") \/ EndsWith(path, ".xls")

\* rename_dict of load_data: 'Unnamed: k' becomes the k-th metadata name
RenameColumn(col) ==
    IF \E k \in 1..9 : col = "Unnamed: " \o Char(Digits, k)
    THEN METADATA_COLUMNS[CHOOSE k \in 1..9 : col = "Unnamed: " \o Char(Digits, k)]
    ELSE col

\* pd.read_csv(dtype=str) / pd.read_excel(skiprows=[1]) + rename, then
\* astype(str); a file is [path, readable, columns, rows], rows being the
\* physical rows below the header row, each a sequence of cell texts
LoadData(file) ==
    LET body == IF IsCsv(file.path) \/ file.rows = << >> THEN file.rows
                ELSE Tail(file.rows)
    IN  [ columns |-> IF IsCsv(file.path) THEN file.columns
                      ELSE [ k \in 1..Len(file.columns) |-> RenameColumn(file.columns[k]) ],
          rows |-> [ i \in 1..Len(body) |-> [ idx |-> i - 1, cells |-> body[i] ] ] ]

\* load_data raises (unsupported extension, I/O or parser error)
LoadFails(file) == ~file.readable \/ ~(IsCsv(file.path) \/ IsExcel(file.path))

\* df_cat = df_final[df_final[cat].str.strip().str.lower() == 'x'], for a
\* label cat carried by exactly one column
MarkedIn(frame, cat) == SelectRows(frame, AnyMarked(SelectColumns(frame, << cat >>)))

\* df_final[cat] is a Series (it has .str) iff exactly one column carries cat
IsSeries(frame, cat) == Len(Positions(frame.columns, cat)) = 1

\* sheet_name = cat[:31]
SheetName(cat) == Prefix(cat, SheetNameLimit)

SheetNames(book) == [ i \in 1..Len(book) |-> book[i].name ]

\* to_excel on a sheet name the writer already holds: the cells are written
\* over the old ones from the top-left corner, rows below the new data stay
Overwrite(old, new) ==
    [ columns |-> new.columns,
      rows |-> new.rows \o SubSeq(old.rows, Len(new.rows) + 1, Len(old.rows)) ]

\* df_cat_filtered.to_excel(writer, sheet_name=...)
WriteSheet(book, name, data) ==
    IF InSeq(name, SheetNames(book))
    THEN [ i \in 1..Len(book) |->
             IF book[i].name = name
             THEN [ name |-> name, data |-> Overwrite(book[i].data, data) ]
             ELSE book[i] ]
    ELSE Append(book, [ name |-> name, data |-> data ])

\* WriteCategory without the df_cat.empty test
WriteCategory_always(book, final, cat) ==
    WriteSheet(book, SheetName(cat),
               SelectColumns(MarkedIn(final, cat), METADATA_COLUMNS \o << cat >>))

\* one pass of "for cat in chosen_cat_columns" that raises nothing
WriteCategory(book, final, cat) ==
    LET df_cat == MarkedIn(final, cat)
    IN  IF df_cat.rows = << >> THEN book
        ELSE WriteSheet(book, SheetName(cat),
                        SelectColumns(df_cat, METADATA_COLUMNS \o << cat >>))

Say(text) == [ text |-> text, invalid |-> << >> ]

VARIABLES
    pc,                 \* the stage the run is at
    origin,             \* "path": a path was given; "blank": download
    source,             \* the original file
    stdin,              \* the text the operator types at the column prompt
    df,                 \* load_data's result
    cat_columns,
    chosen_indexes,
    chosen_cat_columns,
    df_filtered,
    df_final,
    pickle_file,        \* dane_filtered.pkl: << >> or << DataFrame >>
    book,               \* the sheets held by the open ExcelWriter
    cat_pos,            \* position of the category loop
    output_file,        \* baza_czasopism.xlsx: << >> or << sheets >>
    out                 \* what was printed for the operator

convVars == << pc, origin, source, stdin, df, cat_columns, chosen_indexes,
               chosen_cat_columns, df_filtered, df_final, pickle_file, book,
               cat_pos, output_file, out >>

VARIABLES
    vpc,                \* the viewer: "start", "running" or "exit"
    vdf,                \* self.df: the snapshot, rows carrying numeric points
    current_df,         \* self.current_df
    column_vars,        \* self.column_vars: column label -> checked
    tree_columns,       \* self.tree["columns"]
    tree_rows           \* the values of the rows held by self.tree

viewVars == << vpc, vdf, current_df, column_vars, tree_columns, tree_rows >>

vars == << convVars, viewVars >>

(***************************************************************************)
(* The inputs of the model: original files and operator answers.           *)
(***************************************************************************)
LongA == "Category with a very long name, part A"
LongB == "Category with a very long name, part B"

\* the categorical columns of the modelled files
CatLayouts == { << >>, << "A" >>, << "A", "B" >>, << LongA, LongB >> }

ShuffledMeta ==
    << "Punkty", "Lp.", "Unikatowy Identyfikator Czasopisma", "Tytul 1",
       "issn", "e-issn", "Tytul 2", "issn 2", "e-issn 2" >>

PartialMeta ==
    << "Lp.", "Unikatowy Identyfikator Czasopisma", "Tytul 1", "issn",
       "e-issn", "Punkty" >>

UnnamedMeta == [ k \in 1..9 |-> "Unnamed: " \o Char(Digits, k) ]

\* header rows: metadata first, then the categories; a category first, then
\* the metadata in another order; some metadata names absent
AllHeaders ==
    { METADATA_COLUMNS \o c : c \in CatLayouts }
    \cup { << "A" >> \o ShuffledMeta \o << "B" >>, PartialMeta \o << "A" >> }

CellValues == { "x", " X ", "no" }

\* the cells of physical row i under header cols, given the row's
\* categorical cells (aligned with cats) and its points
FileRow(cols, cats, i, cells, punkty) ==
    [ k \in 1..Len(cols) |->
        IF cols[k] \in { "Lp.", "Unnamed: 0" } THEN Char(Digits, i + 1)
        ELSE IF cols[k] \in { "Punkty", "Unnamed: 8" } THEN punkty
        ELSE IF InSeq(cols[k], cats)
             THEN cells[CHOOSE j \in 1..Len(cats) : cats[j] = cols[k]]
        ELSE "-" ]

\* the choices for one physical row: its categorical cells and its points
RowChoices(cats, points) ==
    { [ cells |-> c, punkty |-> p ] : c \in [ 1..Len(cats) -> CellValues ], p \in points }

\* the file body under header cols made of the chosen rows
Body(cols, cats, chosen) ==
    [ i \in 1..Len(chosen) |-> FileRow(cols, cats, i, chosen[i].cells, chosen[i].punkty) ]

File(path, readable, cols, rows) ==
    [ path |-> path, readable |-> readable, columns |-> cols, rows |-> rows ]

\* comma-joined text of a token sequence
RECURSIVE Join(_)
Join(toks) ==
    IF toks = << >> THEN ""
    ELSE IF Len(toks) = 1 THEN toks[1]
    ELSE toks[1] \o "," \o Join(Tail(toks))

\* answers that are in range for two categories
PlainAnswers == { "", "1", "1,2", " 2 ,,1", "1,1" }

Tokens == { "2", "7", "0", "4", "x" }

FiveCats == << "A", "B", "C", "D", "E" >>

\* CSV files of every layout and body, answered with in-range numbers
CsvRuns ==
    \E h \in AllHeaders :
      \E b \in SeqsUpTo(RowChoices(CatColumns(h), { "20" }), MaxRows), a \in PlainAnswers :
        /\ origin = "path"
        /\ source = File("lista.csv", TRUE, h, Body(h, CatColumns(h), b))
        /\ stdin = a

\* one-row CSV files answered with arbitrary typed text
TypedRuns ==
    \E c \in { FiveCats }, t \in SeqsUpTo(Tokens, MaxTokens) :
        /\ origin = "path"
        /\ source = File("Lista.CSV", TRUE, METADATA_COLUMNS \o c,
                         << FileRow(METADATA_COLUMNS \o c, c, 1,
                                    [ j \in 1..Len(c) |-> "x" ], "20") >>)
        /\ stdin = Join(t)

\* spreadsheets (header on two rows, metadata columns unlabeled), given by
\* path or downloaded
ExcelHeader == UnnamedMeta \o << "A", "B" >>

ExcelRuns ==
    \E o \in { [ origin |-> "path", path |-> "Wykaz.XLSX" ],
               [ origin |-> "blank", path |-> "original.xlsx" ] },
       b \in SeqsUpTo(RowChoices(<< "A", "B" >>, { "20" }), 1),
       a \in PlainAnswers :
        /\ origin = o.origin
        /\ source = File(o.path, TRUE, ExcelHeader,
                         << [ k \in 1..Len(ExcelHeader) |-> "naglowek" ] >>
                         \o Body(ExcelHeader, << "A", "B" >>, b))
        /\ stdin = a

\* files load_data rejects
BadRuns ==
    \E f \in { [ path |-> "lista.txt", readable |-> TRUE ],
               [ path |-> "lista.csv", readable |-> FALSE ],
               [ path |-> "lista.xlsx", readable |-> FALSE ] } :
        /\ origin = "path"
        /\ source = File(f.path, f.readable, METADATA_COLUMNS, << >>)
        /\ stdin = ""

Init ==
    /\ (CsvRuns \/ TypedRuns \/ ExcelRuns \/ BadRuns)
    /\ pc = "main"
    /\ df = EmptyDF
    /\ cat_columns = << >>
    /\ chosen_indexes = << >>
    /\ chosen_cat_columns = << >>
    /\ df_filtered = EmptyDF
    /\ df_final = EmptyDF
    /\ pickle_file = << >>
    /\ book = << >>
    /\ cat_pos = 0
    /\ output_file = << >>
    /\ out = << >>
    /\ vpc = "start"
    /\ vdf = EmptyDF
    /\ current_df = EmptyDF
    /\ column_vars = << >>
    /\ tree_columns = << >>
    /\ tree_rows = << >>

(***************************************************************************)
(* main(): with a path, run_conversion(path); with a blank answer the file *)
(* is downloaded to the temporary original.xlsx first.                     *)
(***************************************************************************)
Main ==
    /\ pc = "main"
    /\ \/ /\ origin = "path"
          /\ pc' = "load"
          /\ out' = out
       \/ /\ origin = "blank"
          /\ pc' = "load"
          /\ out' = out
       \/ /\ origin = "blank"
          /\ pc' = "done"
          /\ out' = Append(out, Say("Error downloading the file. Check logs."))
    /\ UNCHANGED << origin, source, stdin, df, cat_columns, chosen_indexes,
                    chosen_cat_columns, df_filtered, df_final, pickle_file,
                    book, cat_pos, output_file >>
    /\ UNCHANGED viewVars

\* run_conversion, lines 86-90
Load ==
    /\ pc = "load"
    /\ IF LoadFails(source)
       THEN /\ out' = Append(out, Say("Error loading original file. Check logs."))
            /\ pc' = "done"
            /\ df' = df
       ELSE /\ df' = LoadData(source)
            /\ pc' = "classify"
            /\ out' = out
    /\ UNCHANGED << origin, source, stdin, cat_columns, chosen_indexes,
                    chosen_cat_columns, df_filtered, df_final, pickle_file,
                    book, cat_pos, output_file >>
    /\ UNCHANGED viewVars

\* lines 92-97
Classify ==
    /\ pc = "classify"
    /\ cat_columns' = CatColumns(df.columns)
    /\ pc' = "prompt"
    /\ UNCHANGED << origin, source, stdin, df, chosen_indexes,
                    chosen_cat_columns, df_filtered, df_final, pickle_file,
                    book, cat_pos, output_file, out >>
    /\ UNCHANGED viewVars

\* lines 99-105
Prompt ==
    /\ pc = "prompt"
    /\ LET parsed == ParseIndexes(stdin)
       IN  IF parsed.ok
           THEN /\ chosen_indexes' = parsed.v
                /\ pc' = "validate"
                /\ out' = out
           ELSE /\ out' = Append(out, Say("Error: Invalid column numbers provided."))
                /\ pc' = "done"
                /\ chosen_indexes' = chosen_indexes
    /\ UNCHANGED << origin, source, stdin, df, cat_columns,
                    chosen_cat_columns, df_filtered, df_final, pickle_file,
                    book, cat_pos, output_file >>
    /\ UNCHANGED viewVars

\* lines 107-114
Validate ==
    /\ pc = "validate"
    /\ LET invalid == Invalid(chosen_indexes, Len(cat_columns))
       IN  IF invalid # << >>
           THEN /\ out' = Append(out, [ text |-> "Error: Invalid column numbers:",
                                        invalid |-> invalid ])
                /\ pc' = "done"
                /\ chosen_cat_columns' = chosen_cat_columns
           ELSE /\ chosen_cat_columns' = ChosenCatColumns(cat_columns, chosen_indexes)
                /\ pc' = "filter"
                /\ out' = out
    /\ UNCHANGED << origin, source, stdin, df, cat_columns, chosen_indexes,
                    df_filtered, df_final, pickle_file, book, cat_pos,
                    output_file >>
    /\ UNCHANGED viewVars

\* lines 116-119
Filter ==
    /\ pc = "filter"
    /\ df_filtered' = FilterMarked(df, chosen_cat_columns)
    /\ pc' = "project"
    /\ UNCHANGED << origin, source, stdin, df, cat_columns, chosen_indexes,
                    chosen_cat_columns, df_final, pickle_file, book, cat_pos,
                    output_file, out >>
    /\ UNCHANGED viewVars

\* lines 121-124; the KeyError of a missing label is caught nowhere
Project ==
    /\ pc = "project"
    /\ IF HasColumns(df_filtered, ColumnsToKeep(chosen_cat_columns))
       THEN /\ df_final' = SelectColumns(df_filtered, ColumnsToKeep(chosen_cat_columns))
            /\ pc' = "pickle"
       ELSE /\ pc' = "crashed"
            /\ df_final' = df_final
    /\ UNCHANGED << origin, source, stdin, df, cat_columns, chosen_indexes,
                    chosen_cat_columns, df_filtered, pickle_file, book,
                    cat_pos, output_file, out >>
    /\ UNCHANGED viewVars

\* lines 126-135; the write may fail (I/O)
SavePickle ==
    /\ pc = "pickle"
    /\ \/ /\ pickle_file' = << df_final >>
          /\ out' = Append(out, Say("Pickle file saved: dane_filtered.pkl"))
          /\ pc' = "excel_all"
       \/ /\ pickle_file' = pickle_file
          /\ out' = Append(out, Say("Error saving pickle file. Check logs."))
          /\ pc' = "done"
    /\ UNCHANGED << origin, source, stdin, df, cat_columns, chosen_indexes,
                    chosen_cat_columns, df_filtered, df_final, book, cat_pos,
                    output_file >>
    /\ UNCHANGED viewVars

\* lines 141-155; creating the writer may fail (I/O)
ExcelAll ==
    /\ pc = "excel_all"
    /\ \/ /\ book' = << [ name |-> "All", data |-> df_final ] >>
          /\ cat_pos' = 1
          /\ pc' = "excel_cat"
          /\ out' = out
       \/ /\ out' = Append(out, Say("Error saving Excel file. Check logs."))
          /\ pc' = "done"
          /\ UNCHANGED << book, cat_pos >>
    /\ UNCHANGED << origin, source, stdin, df, cat_columns, chosen_indexes,
                    chosen_cat_columns, df_filtered, df_final, pickle_file,
                    output_file >>
    /\ UNCHANGED viewVars

\* an exception inside the with block: the writer's exit still closes the
\* book (the sheets written so far are saved unless that write fails too),
\* then lines 180-183
ExcelRaise ==
    /\ out' = Append(out, Say("Error saving Excel file. Check logs."))
    /\ pc' = "done"
    /\ \/ output_file' = << book >>
       \/ output_file' = output_file
    /\ UNCHANGED << book, cat_pos >>

\* lines 158-177, one pass of the loop
ExcelCat ==
    /\ pc = "excel_cat"
    /\ cat_pos <= Len(chosen_cat_columns)
    /\ LET cat == chosen_cat_columns[cat_pos]
       IN  \/ /\ ~IsSeries(df_final, cat)
              /\ ExcelRaise
           \/ /\ IsSeries(df_final, cat)
              /\ book' = WriteCategory(book, df_final, cat)
              /\ cat_pos' = cat_pos + 1
              /\ UNCHANGED << pc, out, output_file >>
           \/ /\ IsSeries(df_final, cat)
              /\ MarkedIn(df_final, cat).rows # << >>
              /\ InSeq(SheetName(cat), SheetNames(book))
              /\ ExcelRaise
    /\ UNCHANGED << origin, source, stdin, df, cat_columns, chosen_indexes,
                    chosen_cat_columns, df_filtered, df_final, pickle_file >>
    /\ UNCHANGED viewVars

\* the end of the with block (the book is written to disk), lines 178-183
ExcelClose ==
    /\ pc = "excel_cat"
    /\ cat_pos > Len(chosen_cat_columns)
    /\ \/ /\ output_file' = << book >>
          /\ out' = Append(out, Say("Excel file saved successfully: baza_czasopism.xlsx"))
       \/ /\ output_file' = output_file
          /\ out' = Append(out, Say("Error saving Excel file. Check logs."))
    /\ pc' = "done"
    /\ UNCHANGED << origin, source, stdin, df, cat_columns, chosen_indexes,
                    chosen_cat_columns, df_filtered, df_final, pickle_file,
                    book, cat_pos >>
    /\ UNCHANGED viewVars

(***************************************************************************)
(* The viewer (database_viewer.py).                                        *)
(***************************************************************************)
NaN == [ nan |-> TRUE, v |-> 0 ]

\* pd.to_numeric(errors="coerce") and float(): whole numbers only here;
\* ok = FALSE of ParseInt is NaN for to_numeric and ValueError for float
ToNumeric(text) ==
    IF ParseInt(text).ok THEN [ nan |-> FALSE, v |-> ParseInt(text).v ] ELSE NaN

\* str() of a float64 cell
FloatStr(p) == IF p.nan THEN "nan" ELSE Strip(p.text) \o ".0"

\* load_database: the snapshot with "Punkty" made numeric
WithPoints(snapshot) ==
    LET at == Positions(snapshot.columns, "Punkty")[1]
    IN  [ columns |-> snapshot.columns,
          rows |-> [ r \in 1..Len(snapshot.rows) |->
                       [ idx |-> snapshot.rows[r].idx,
                         cells |-> snapshot.rows[r].cells,
                         points |-> ToNumeric(snapshot.rows[r].cells[at]) ] ] ]

\* read_pickle or df["Punkty"] raises
LoadDatabaseFails(file) ==
    file = << >> \/ Positions(file[1].columns, "Punkty") = << >>

\* default_cols of create_widgets
DefaultCols(cols) == { "Tytul 1", "Punkty", "issn" } \cup Range(CatColumns(cols))

\* visible_cols = [col for col in self.df.columns if self.column_vars[col].get()]
VisibleCols(cols, checked) ==
    LET Checked(c) == checked[c]
    IN  SelectSeq(cols, Checked)

\* [str(row[col]) for col in visible_cols] for every row of frame
TableValues(frame, visible) ==
    LET at == [ k \in 1..Len(visible) |-> Positions(frame.columns, visible[k])[1] ]
    IN  [ r \in 1..Len(frame.rows) |->
            [ k \in 1..Len(visible) |->
                IF visible[k] = "Punkty"
                THEN FloatStr([ nan |-> frame.rows[r].points.nan,
                                text |-> frame.rows[r].cells[at[k]] ])
                ELSE frame.rows[r].cells[at[k]] ] ]

\* (df["Punkty"] >= min_points) & (df["Punkty"] <= max_points)
InRange(frame, lo, hi) ==
    LET Within(row) == ~row.points.nan /\ row.points.v >= lo /\ row.points.v <= hi
    IN  [ columns |-> frame.columns, rows |-> SelectSeq(frame.rows, Within) ]

\* filtered_df[filtered_df[selected_category].str.lower() == 'x']
InCategory(frame, category) ==
    LET at == Positions(frame.columns, category)[1]
        Member(row) == Lower(row.cells[at]) = "x"
    IN  [ columns |-> frame.columns, rows |-> SelectSeq(frame.rows, Member) ]

RECURSIVE Perms(_)
Perms(S) ==
    IF S = { } THEN { << >> }
    ELSE UNION { { << x >> \o p : p \in Perms(S \ { x }) } : x \in S }

\* sort_values(by="Punkty", ascending=False): the orders of the rows with
\* non-increasing points (the sort is not stable: equal points in any order)
SortedByPoints(frame) ==
    { [ columns |-> frame.columns, rows |-> p ] :
        p \in { q \in Perms(Range(frame.rows)) :
                  \A i \in 1..(Len(q) - 1) : q[i].points.v >= q[i + 1].points.v } }

\* populate_table(df): nothing is touched when no column is checked
\* (an information box is shown and dismissed)
PopulateTable(frame, checked) ==
    LET visible == VisibleCols(vdf'.columns, checked)
    IN  IF visible = << >>
        THEN UNCHANGED << tree_columns, tree_rows >>
        ELSE /\ tree_columns' = visible
             /\ tree_rows' = TableValues(frame, visible)

\* main(): load_database, DatabaseViewer.__init__, populate_table(self.df)
StartViewer ==
    /\ vpc = "start"
    /\ pc = "done"
    /\ IF LoadDatabaseFails(pickle_file)
       THEN /\ vpc' = "exit"
            /\ UNCHANGED << vdf, current_df, column_vars, tree_columns, tree_rows >>
       ELSE /\ vpc' = "running"
            /\ vdf' = WithPoints(pickle_file[1])
            /\ current_df' = vdf'
            /\ column_vars' = [ c \in Range(vdf'.columns) |->
                                  c \in DefaultCols(vdf'.columns) ]
            /\ PopulateTable(vdf', column_vars')
    /\ UNCHANGED convVars

\* ToggleColumn refreshing the table from self.df, not self.current_df
ToggleColumn_unfiltered(col) ==
    /\ vpc = "running"
    /\ column_vars' = [ column_vars EXCEPT ![col] = ~column_vars[col] ]
    /\ UNCHANGED << vpc, vdf, current_df >>
    /\ PopulateTable(vdf, column_vars')
    /\ UNCHANGED convVars

\* a click on the checkbox of col, then update_visible_columns
ToggleColumn(col) ==
    /\ vpc = "running"
    /\ column_vars' = [ column_vars EXCEPT ![col] = ~column_vars[col] ]
    /\ UNCHANGED << vpc, vdf, current_df >>
    /\ PopulateTable(current_df, column_vars')
    /\ UNCHANGED convVars

\* apply_filters with the entries holding min_text and max_text and the
\* combobox holding category
ApplyFiltersWith(min_text, max_text, category) ==
    /\ vpc = "running"
    /\ UNCHANGED << vpc, vdf, column_vars >>
    /\ IF ~ParseInt(min_text).ok \/ ~ParseInt(max_text).ok
       THEN UNCHANGED << current_df, tree_columns, tree_rows >>
       ELSE LET ranged == InRange(vdf, ParseInt(min_text).v, ParseInt(max_text).v)
                filtered == IF category # "All" THEN InCategory(ranged, category)
                            ELSE ranged
            IN  /\ current_df' \in SortedByPoints(filtered)
                /\ PopulateTable(current_df', column_vars)
    /\ UNCHANGED convVars

\* what the operator types into the Min Points and Max Points entries
PointsEntries ==
    { [ min |-> "0", max |-> "200" ],
      [ min |-> "100", max |-> "200" ],
      [ min |-> "0", max |-> "max" ] }

Toggle == \E col \in Range(vdf.columns) : ToggleColumn(col)

ApplyFilters ==
    \E e \in PointsEntries, category \in { "All" } \cup Range(CatColumns(vdf.columns)) :
        ApplyFiltersWith(e.min, e.max, category)

\* the snapshot and the workbook a complete run writes for file and answer
FinalOf(file, answer) ==
    LET d == LoadData(file)
        chosen == ChosenCatColumns(CatColumns(d.columns), ParseIndexes(answer).v)
    IN  SelectColumns(FilterMarked(d, chosen), ColumnsToKeep(chosen))

RECURSIVE WriteCategories(_, _, _)
WriteCategories(sheets, final, cats) ==
    IF cats = << >> THEN sheets
    ELSE WriteCategories(WriteCategory(sheets, final, Head(cats)), final, Tail(cats))

WorkbookOf(file, answer) ==
    LET d == LoadData(file)
        chosen == ChosenCatColumns(CatColumns(d.columns), ParseIndexes(answer).v)
    IN  WriteCategories(<< [ name |-> "All", data |-> FinalOf(file, answer) ] >>,
                        FinalOf(file, answer), chosen)

\* the rows of the files the viewer is checked on
ViewRowChoices ==
    { [ cells |-> << "x" >>, punkty |-> "140" ],
      [ cells |-> << " X " >>, punkty |-> "20" ],
      [ cells |-> << "X" >>, punkty |-> "b.d." ] }

ViewHeader == METADATA_COLUMNS \o << "A" >>

\* the viewer is started after a complete run of the converter, or with no
\* snapshot on disk
ViewInit ==
    /\ pc = "done"
    /\ origin = "path"
    /\ stdin = ""
    /\ source = File("lista.csv", TRUE, ViewHeader, << >>)
    /\ df = EmptyDF
    /\ cat_columns = << >>
    /\ chosen_indexes = << >>
    /\ chosen_cat_columns = << >>
    /\ df_filtered = EmptyDF
    /\ df_final = EmptyDF
    /\ book = << >>
    /\ cat_pos = 0
    /\ out = << >>
    /\ \/ /\ pickle_file = << >>
          /\ output_file = << >>
       \/ \E b \in SeqsUpTo(ViewRowChoices, MaxViewRows), a \in { "", "1" } :
            LET file == File("lista.csv", TRUE, ViewHeader, Body(ViewHeader, << "A" >>, b))
            IN  /\ pickle_file = << FinalOf(file, a) >>
                /\ output_file = << WorkbookOf(file, a) >>
    /\ vpc = "start"
    /\ vdf = EmptyDF
    /\ current_df = EmptyDF
    /\ column_vars = << >>
    /\ tree_columns = << >>
    /\ tree_rows = << >>

ViewNext ==
    \/ StartViewer
    \/ Toggle
    \/ ApplyFilters

ViewerSpec == ViewInit /\ [][ViewNext]_vars

Next ==
    \/ Main
    \/ Load
    \/ Classify
    \/ Prompt
    \/ Validate
    \/ Filter
    \/ Project
    \/ SavePickle
    \/ ExcelAll
    \/ ExcelCat
    \/ ExcelClose

Spec == Init /\ [][Next]_vars

(***************************************************************************)
(* Vocabulary of the properties.                                           *)
(***************************************************************************)
PickleSaved == Say("Pickle file saved: dane_filtered.pkl")
PickleError == Say("Error saving pickle file. Check logs.")
ExcelSaved == Say("Excel file saved successfully: baza_czasopism.xlsx")
ExcelError == Say("Error saving Excel file. Check logs.")
LoadError == Say("Error loading original file. Check logs.")
DownloadError == Say("Error downloading the file. Check logs.")
FormatError == Say("Error: Invalid column numbers provided.")
InvalidNumbers == "Error: Invalid column numbers:"

\* the run got past the filtering stage (lines 116-119)
HasFiltered ==
    \/ pc \in { "project", "pickle", "excel_all", "excel_cat", "crashed" }
    \/ pc = "done" /\ (InSeq(PickleSaved, out) \/ InSeq(PickleError, out))

\* the value, trimmed of whitespace and lower-cased, equals "x"
IsMarker(value) == Lower(Strip(value)) = "x"

\* row is marked in a column of frame labelled c
MarkedInColumn(frame, row, c) ==
    \E k \in 1..Len(frame.columns) : frame.columns[k] = c /\ IsMarker(row.cells[k])

Distinct(s) == \A i, j \in 1..Len(s) : s[i] = s[j] => i = j

(***************************************************************************)
(* C1: once the filter has run, the filtered rows are exactly the loaded   *)
(* rows marked (trimmed, lower-cased value "x") in at least one selected   *)
(* column, in their original order; marks in unselected columns do not     *)
(* count, and the snapshot holds the same rows in the same order.          *)
(***************************************************************************)
C1_FilterKeepsMarkedRows ==
    HasFiltered =>
        LET Survives(row) ==
                \E k \in 1..Len(df.columns) :
                    /\ InSeq(df.columns[k], chosen_cat_columns)
                    /\ IsMarker(row.cells[k])
        IN  /\ df_filtered.rows = SelectSeq(df.rows, Survives)
            /\ df_filtered.columns = df.columns
            /\ pickle_file # << >> =>
                   RowIds(pickle_file[1]) = RowIds([ columns |-> df.columns,
                                                     rows |-> SelectSeq(df.rows, Survives) ])

\* a row marked only in an unselected column was dropped, and a row whose
\* selected cell is " X " was kept beside an unmarked unselected cell
C1_Witness ==
    /\ HasFiltered
    /\ \E r \in 1..Len(df.rows) :
          /\ df.rows[r].idx \notin Range(RowIds(df_filtered))
          /\ \E k \in 1..Len(df.columns) :
                /\ ~InSeq(df.columns[k], METADATA_COLUMNS)
                /\ ~InSeq(df.columns[k], chosen_cat_columns)
                /\ IsMarker(df.rows[r].cells[k])
    /\ \E r \in 1..Len(df.rows) :
          /\ df.rows[r].idx \in Range(RowIds(df_filtered))
          /\ \E k \in 1..Len(df.columns) :
                /\ InSeq(df.columns[k], chosen_cat_columns)
                /\ df.rows[r].cells[k] = " X "

(***************************************************************************)
(* C2: when some entered index lies outside 1..N, the run ends reporting   *)
(* every out-of-range index (all of them, in the order entered), nothing   *)
(* is selected or filtered and neither file is written; with N = 5 and     *)
(* 2, 7, 0, 4 the report is exactly 7, 0.                                  *)
(***************************************************************************)
C2_InvalidIndexesAllReported ==
    LET OutOfRange(idx) == idx < 1 \/ idx > Len(cat_columns)
        bad == SelectSeq(chosen_indexes, OutOfRange)
    IN  /\ (pc \notin { "main", "load", "classify", "prompt", "validate" } /\ bad # << >>) =>
              /\ pc = "done"
              /\ out = << [ text |-> InvalidNumbers, invalid |-> bad ] >>
              /\ chosen_cat_columns = << >>
              /\ df_filtered = EmptyDF
              /\ df_final = EmptyDF
              /\ pickle_file = << >>
              /\ book = << >>
              /\ output_file = << >>
        /\ (pc = "done" /\ Len(cat_columns) = 5 /\ chosen_indexes = << 2, 7, 0, 4 >>) =>
              out = << [ text |-> InvalidNumbers, invalid |-> << 7, 0 >> ] >>

C2_Witness ==
    /\ pc = "done"
    /\ Len(cat_columns) = 5
    /\ chosen_indexes = << 2, 7, 0, 4 >>
    /\ Len(out) = 1
    /\ out[1].invalid = << 7, 0 >>

(***************************************************************************)
(* C3: the columns of the snapshot and of sheet "All" are the metadata     *)
(* columns followed by the selected categorical columns, in that order;    *)
(* no unselected categorical column is among them.                         *)
(***************************************************************************)
C3_ProjectedColumns ==
    LET Projected(cols) ==
            /\ cols = METADATA_COLUMNS \o chosen_cat_columns
            /\ \A c \in Range(cat_columns) :
                  ~InSeq(c, chosen_cat_columns) => ~InSeq(c, cols)
    IN  /\ pickle_file # << >> => Projected(pickle_file[1].columns)
        /\ book # << >> => Projected(book[1].data.columns)
        /\ output_file # << >> => Projected(output_file[1][1].data.columns)

\* both files are written, of a table whose header starts with a category,
\* with one category selected and another left out
C3_Witness ==
    /\ pickle_file # << >>
    /\ output_file # << >>
    /\ chosen_cat_columns # << >>
    /\ df.columns[1] = "A"
    /\ \E c \in Range(cat_columns) : ~InSeq(c, chosen_cat_columns)

(***************************************************************************)
(* C4: in every workbook (being written or saved) the first sheet is       *)
(* "All", every category sheet has at least one row, and a selected        *)
(* category with no marked row has no sheet.                               *)
(***************************************************************************)
C4_NoEmptySheet ==
    LET Unmarked(c) == \A r \in 1..Len(df_final.rows) :
                           ~MarkedInColumn(df_final, df_final.rows[r], c)
        Sound(wb) ==
            /\ wb[1].name = "All"
            /\ wb[1].data = df_final
            /\ \A i \in 2..Len(wb) : wb[i].data.rows # << >>
            /\ \A j \in 1..Len(chosen_cat_columns) :
                  Unmarked(chosen_cat_columns[j]) =>
                      ~\E i \in 2..Len(wb) :
                          wb[i].data.columns = METADATA_COLUMNS \o << chosen_cat_columns[j] >>
    IN  /\ book # << >> => Sound(book)
        /\ output_file # << >> => (output_file[1] # << >> /\ Sound(output_file[1]))

\* a saved workbook with a category sheet, one selected category left out
C4_Witness ==
    /\ output_file # << >>
    /\ Len(output_file[1]) = 2
    /\ Len(chosen_cat_columns) = 2
    /\ \E j \in 1..2 : \A r \in 1..Len(df_final.rows) :
          ~MarkedInColumn(df_final, df_final.rows[r], chosen_cat_columns[j])

(***************************************************************************)
(* C5: a saved workbook holds, after "All" and in selection order, one     *)
(* sheet per selected category that has a marked row, named by the first   *)
(* 31 characters of the category, with exactly the marked rows and the     *)
(* metadata columns plus the category.                                     *)
(***************************************************************************)
C5_CategorySheets ==
    output_file # << >> =>
        LET wb == output_file[1]
            HasRows(c) == \E r \in 1..Len(df_final.rows) :
                              MarkedInColumn(df_final, df_final.rows[r], c)
            written == SelectSeq(chosen_cat_columns, HasRows)
            Expected(c) ==
                LET InC(row) == MarkedInColumn(df_final, row, c)
                    at == CHOOSE k \in 1..Len(df_final.columns) : df_final.columns[k] = c
                    rows == SelectSeq(df_final.rows, InC)
                IN  [ columns |-> METADATA_COLUMNS \o << c >>,
                      rows |-> [ r \in 1..Len(rows) |->
                                   [ idx |-> rows[r].idx,
                                     cells |-> SubSeq(rows[r].cells, 1, 9)
                                               \o << rows[r].cells[at] >> ] ] ]
        IN  /\ Len(wb) = 1 + Len(written)
            /\ \A i \in 1..Len(written) :
                  /\ i + 1 <= Len(wb)
                  /\ wb[i + 1].name = Prefix(written[i], 31)
                  /\ wb[i + 1].data = Expected(written[i])

(***************************************************************************)
(* C6: a run that does not end in success ends with one short error        *)
(* message and nothing after it; a download, load or selection failure     *)
(* leaves both files unwritten, a snapshot failure leaves the workbook     *)
(* unwritten, and the workbook is written only after the snapshot.         *)
(***************************************************************************)
C6_FailureStopsRun ==
    LET Errors == { PickleError, ExcelError, LoadError, DownloadError, FormatError }
        IsError(m) == m \in Errors \/ m.text = InvalidNumbers
        ended == pc \in { "done", "crashed" }
        success == out # << >> /\ out[Len(out)] = ExcelSaved
    IN  /\ (ended /\ ~success) =>
              /\ pc = "done"
              /\ out # << >>
              /\ IsError(out[Len(out)])
        /\ \A i \in 1..Len(out) : IsError(out[i]) => (i = Len(out) /\ pc = "done")
        /\ \A i \in 1..Len(out) :
              (out[i] \in { LoadError, DownloadError, FormatError }
               \/ out[i].text = InvalidNumbers) =>
                  pickle_file = << >> /\ output_file = << >>
        /\ InSeq(PickleError, out) => output_file = << >>
        /\ output_file # << >> => pickle_file # << >>
        /\ book # << >> => pickle_file # << >>

(***************************************************************************)
(* C7: no table of the pipeline has two columns of the same name, also     *)
(* when an index is entered twice, and such a run completes normally.      *)
(***************************************************************************)
C7_DistinctColumns ==
    /\ Distinct(df.columns)
    /\ Distinct(df_filtered.columns)
    /\ Distinct(df_final.columns)
    /\ pickle_file # << >> => Distinct(pickle_file[1].columns)
    /\ (pc = "done" /\ InSeq(PickleSaved, out) /\ ~Distinct(chosen_cat_columns)) =>
           (out[Len(out)] = ExcelSaved \/ output_file = << >>)

(***************************************************************************)
(* C8: classification never fails: the categorical columns are the         *)
(* non-metadata columns in table order, and the metadata columns the       *)
(* pipeline keeps are the fixed names present in the table, in canonical   *)
(* order - also for a table lacking some of them.                          *)
(***************************************************************************)
C8_ClassificationAdapts ==
    LET IsPresent(m) == InSeq(m, df.columns)
        IsCategory(c) == \A k \in 1..Len(METADATA_COLUMNS) : METADATA_COLUMNS[k] # c
        present == SelectSeq(METADATA_COLUMNS, IsPresent)
    IN  /\ pc \notin { "main", "load", "classify" } =>
              cat_columns = SelectSeq(df.columns, IsCategory)
        /\ pc # "crashed"
        /\ pc \in { "pickle", "excel_all", "excel_cat" } =>
              df_final.columns = present \o chosen_cat_columns

(***************************************************************************)
(* C9: when every row of the snapshot has numeric points inside the        *)
(* chosen range, apply_filters for category c leaves exactly the rows the  *)
(* converter put on the sheet of c (no row when c has no sheet).           *)
(***************************************************************************)
C9_ViewerAgreesWithConverter ==
    [][ \A e \in PointsEntries, c \in Range(CatColumns(vdf.columns)) :
          ( /\ ApplyFiltersWith(e.min, e.max, c)
            /\ ParseInt(e.min).ok
            /\ ParseInt(e.max).ok
            /\ \A r \in 1..Len(vdf.rows) :
                  /\ ~vdf.rows[r].points.nan
                  /\ vdf.rows[r].points.v >= ParseInt(e.min).v
                  /\ vdf.rows[r].points.v <= ParseInt(e.max).v )
          => LET wb == output_file[1]
                 OnSheet == UNION { Range(RowIds(wb[i].data)) :
                                      i \in { j \in 2..Len(wb) : wb[j].name = Prefix(c, 31) } }
             IN  Range(RowIds(current_df')) = OnSheet ]_vars

(***************************************************************************)
(* C10 as claimed: while the viewer runs, the table shows the checked      *)
(* columns and the rows of current_df, whatever was toggled or filtered.   *)
(***************************************************************************)
C10_TableAlwaysCurrent ==
    vpc = "running" =>
        /\ tree_columns = VisibleCols(vdf.columns, column_vars)
        /\ tree_rows = TableValues(current_df, tree_columns)

(***************************************************************************)
(* C10 as amended: while the viewer runs and at least one column is        *)
(* checked, the table shows exactly the checked columns and the rows of    *)
(* current_df, in current_df's order.                                      *)
(***************************************************************************)
C10_TableCurrentWhenColumnsChecked ==
    (vpc = "running" /\ \E c \in DOMAIN column_vars : column_vars[c]) =>
        /\ tree_columns = VisibleCols(vdf.columns, column_vars)
        /\ Len(tree_rows) = Len(current_df.rows)
        /\ \A r \in 1..Len(tree_rows), k \in 1..Len(tree_columns) :
              tree_columns[k] # "Punkty" =>
                  \E j \in 1..Len(vdf.columns) :
                      /\ vdf.columns[j] = tree_columns[k]
                      /\ tree_rows[r][k] = current_df.rows[r].cells[j]

\* a filter has removed a row of the snapshot, a column checked by default
\* has been unchecked, and the table shows the filtered rows
C10_Witness ==
    /\ vpc = "running"
    /\ Len(current_df.rows) < Len(vdf.rows)
    /\ Len(tree_rows) = Len(current_df.rows)
    /\ ~column_vars["issn"]
    /\ column_vars["Lp."]
    /\ tree_columns = << "Lp.", "Tytul 1", "Punkty", "A" >>
====
